---- MODULE Spec2Model ----
(***************************************************************************)
(* The paginated fetch/write pipeline of the two Velocloud collectors:     *)
(*   getVCOEnterpriseGetEdgeFlowVisibilityMetrics.py  (pipeline "flow")    *)
(*   getVCOEnterpriseGetEnterpriseEvents.py           (pipeline "events")  *)
(* A worker process (fetch_data_worker) posts page requests and puts each  *)
(* page's data list on a multiprocessing.Queue(maxsize=4); the main        *)
(* process gets the chunks and appends the items to a JSON array file.     *)
(***************************************************************************)
EXTENDS Integers, Sequences, FiniteSets, TLC

VARIABLES
    pipeline,      \* which of the two scripts runs: "flow" or "events"
    fpc,           \* position of fetch_data_worker
    first_page,    \* fetch_data_worker's local first_page
    data,          \* fetch_data_worker's local data (last parsed body)
    queue,         \* the multiprocessing.Queue shared by the two processes
    trace,         \* history: requests posted, responses received, puts done
    wpc,           \* position of main's write loop
    FirstElement,  \* main's local FirstElement
    data_chunk,    \* main's local data_chunk: the items still to iterate
    file,          \* the text written to output_file so far
    written,       \* history: the items handed to write_json_with_indent
    got,           \* history: the messages queue.get() returned to main
    server,        \* the server of the run: its possible answers, and how many
    call           \* a call of load_config or human_to_rfc3339_nano (see below)

vars == <<pipeline, fpc, first_page, data, queue, trace,
          wpc, FirstElement, data_chunk, file, written, got, server, call>>

\* ------------------------------------------------------------------ bounds

\* Number of POSTs the server answers in one run.
MaxRequests == 3

\* Number of POSTs the server answers in a run that fills the queue.
MaxPages == 7

\* Number of POSTs the server answers in a run that looks at the paging.
MaxPagingRequests == 4

\* ------------------------------------------------------- program constants

\* Queue(maxsize=4)
maxsize == 4
\* indent=4 passed to write_json_with_indent by the write loop
indent == 4

\* ------------------------------------------------------------ JSON values

StrV(s) == [kind |-> "str", s |-> s, n |-> 0]
IntV(n) == [kind |-> "int", s |-> "", n |-> n]

\* An item is a JSON object: a sequence of <<key, value>> members.
ItemA == << <<"id", IntV(1)>> >>
ItemB == << <<"name", StrV("web")>>, <<"id", IntV(2)>> >>
Other == << <<"name", StrV("other")>> >>
OtherX == << <<"name", StrV("other")>>, <<"id", IntV(3)>> >>

\* item.get("name") == "other"
IsOther(item) ==
    \E i \in 1..Len(item) : item[i][1] = "name" /\ item[i][2] = StrV("other")

\* The data lists the server may return in a page.
DataLists ==
    { <<>>, <<ItemA>>, <<Other>>, <<ItemA, ItemB>>, <<Other, ItemA>>,
      <<ItemB, OtherX>>, <<Other, Other>> }

\* ---------------------------------------------------------------- responses

\* What session.post / response.json() can produce.
\*   exc    : session.post raised requests.exceptions.RequestException
\*   status : response.status_code
\*   body   : "raise"  response.json() raises
\*            "null"   parses to a falsy value (null, {}, [])
\*            "number" parses to a truthy value that is no container (1, true)
\*            "object" parses to a non-empty JSON object
\*   hasData, items             : the object's data member
\*   hasMeta, hasMore, more     : metaData and metaData.more
\*   hasLink, link              : metaData.nextPageLink
Response(exc, status, body, hasData, items, hasMeta, hasMore, more, hasLink, link) ==
    [exc |-> exc, status |-> status, body |-> body, hasData |-> hasData,
     items |-> items, hasMeta |-> hasMeta, hasMore |-> hasMore, more |-> more,
     hasLink |-> hasLink, link |-> link]

TransportError == Response(TRUE, 0, "none", FALSE, <<>>, FALSE, FALSE, FALSE, FALSE, "")
Status500 == Response(FALSE, 500, "object", TRUE, <<ItemA>>, TRUE, TRUE, TRUE, TRUE, "T1")
Unparsable == Response(FALSE, 200, "raise", FALSE, <<>>, FALSE, FALSE, FALSE, FALSE, "")
NullBody == Response(FALSE, 200, "null", FALSE, <<>>, FALSE, FALSE, FALSE, FALSE, "")
NumberBody == Response(FALSE, 200, "number", FALSE, <<>>, FALSE, FALSE, FALSE, FALSE, "")
NoDataField == Response(FALSE, 200, "object", FALSE, <<>>, TRUE, TRUE, TRUE, TRUE, "T1")

Page(items, hasMeta, hasMore, more, hasLink, link) ==
    Response(FALSE, 200, "object", TRUE, items, hasMeta, hasMore, more, hasLink, link)

\* The pages the server may return: every data list with more = false and with
\* more = true and a token, and the other shapes of metaData on chosen lists.
Pages ==
    { Page(d, TRUE, TRUE, FALSE, FALSE, "") : d \in DataLists }      \* more = false
    \cup { Page(d, TRUE, TRUE, TRUE, TRUE, "T1") : d \in DataLists } \* more, token T1
    \cup { Page(<<ItemA>>, FALSE, FALSE, FALSE, FALSE, ""),           \* no metaData
           Page(<<ItemA>>, TRUE, FALSE, FALSE, FALSE, ""),            \* metaData without more
           Page(<<ItemB>>, TRUE, TRUE, TRUE, TRUE, "T2"),             \* more, token T2
           Page(<<ItemA>>, TRUE, TRUE, TRUE, FALSE, ""),              \* more, no token
           Page(<<Other>>, TRUE, TRUE, TRUE, FALSE, "") }             \* more, no token

Responses ==
    {TransportError, Status500, Unparsable, NullBody, NumberBody, NoDataField}
        \cup Pages

\* The local `data` before the first response.json().
NoData == Response(FALSE, 0, "none", FALSE, <<>>, FALSE, FALSE, FALSE, FALSE, "")

\* ------------------------------------------------------------ queue messages

Batch(items) == [kind |-> "batch", items |-> items]
None == [kind |-> "none", items |-> <<>>]

\* ------------------------------------------------------------ request bodies

\* The body built at the top of the worker's loop; the run's parameters
\* (EdgeID, enterpriseId, start, stop, limit, Vtype) are fixed for the run and
\* stand for themselves.
FirstPageBody(p) ==
    IF p = "flow"
    THEN [page |-> "first", edgeId |-> "EdgeID", enterpriseId |-> "enterpriseId",
          interval |-> [start |-> "start", end |-> "stop"],
          limit |-> "limit_flow", filterSpec |-> FALSE]
    ELSE [page |-> "first", filter |-> [limit |-> "limit_event"],
          interval |-> [start |-> "start", end |-> "stop", type |-> "Vtype"],
          enterpriseId |-> "enterpriseId"]

\* Mutant of NextPageBody: the token of the first response is sent again.
NextPageBody_FirstToken(p, d) ==
    IF p = "flow"
    THEN [page |-> "next", edgeId |-> "EdgeID",
          interval |-> [start |-> "start", end |-> "stop"],
          nextPageLink |-> trace[2].r.link]
    ELSE [page |-> "next", nextPageLink |-> trace[2].r.link, limit |-> "limit_event",
          interval |-> [start |-> "start", end |-> "stop", type |-> "Vtype"],
          enterpriseId |-> "enterpriseId"]

NextPageBody(p, d) ==
    IF p = "flow"
    THEN [page |-> "next", edgeId |-> "EdgeID",
          interval |-> [start |-> "start", end |-> "stop"],
          nextPageLink |-> d.link]
    ELSE [page |-> "next", nextPageLink |-> d.link, limit |-> "limit_event",
          interval |-> [start |-> "start", end |-> "stop", type |-> "Vtype"],
          enterpriseId |-> "enterpriseId"]

\* data["metaData"]["nextPageLink"] raises KeyError
LinkKeyError(d) == ~(d.hasMeta /\ d.hasLink)

\* ------------------------------------------------------- worker's decisions

\* Mutant of BadStatus: the status is never looked at.
BadStatus_Unchecked(r) == FALSE

\* Mutant of BadStatus: only the client errors 4xx are rejected.
BadStatus_ClientErrorsOnly(r) == r.status \in 400..499

\* `response.status_code != 200`
BadStatus(r) == r.status # 200

\* `not data or 'data' not in data`, for a body that is null or an object
NoDataInResponse(r) == r.body = "null" \/ ~r.hasData

\* Mutant of SkipPut: a page is skipped as soon as its first item is "other".
SkipPut_FirstOther(p, d) ==
    /\ p = "flow"
    /\ Len(d.items) >= 1
    /\ IsOther(d.items[1])

\* Mutant of SkipPut: no page is ever skipped.
SkipPut_Never(p, d) == FALSE

\* The page is not put on the queue. The flow worker skips a page that is
\* exactly one item named "other"; the events worker puts every page.
SkipPut(p, d) ==
    /\ p = "flow"
    /\ Len(d.items) = 1
    /\ IsOther(d.items[1])

\* `'metaData' not in data or 'more' not in data["metaData"] or not more`
NoMorePages(d) == ~d.hasMeta \/ ~d.hasMore \/ ~d.more

\* Where the worker goes after the put (or the skipped put) of a page.
AfterPage(d) == IF NoMorePages(d) THEN "putEnd" ELSE "loop"

Requests == SelectSeq(trace, LAMBDA e : e.ev = "req")
Received == SelectSeq(trace, LAMBDA e : e.ev = "resp")
Puts == SelectSeq(trace, LAMBDA e : e.ev = "put")

\* The server answers at most MaxRequests requests, and the last of them
\* with a response that does not ask for another page.
Answers ==
    IF Len(Requests) < server.max
    THEN server.answers
    ELSE {r \in server.answers :
            r.exc \/ r.status # 200 \/ r.body # "object" \/ ~r.hasData \/ NoMorePages(r)}

\* ------------------------------------------------------- fetch_data_worker

\* Mutant of LoopCondition: the worker stops looping once main has aborted.
LoopCondition_UntilAbort == wpc # "aborted"

\* `while True:` - the loop has no exit but `break`, and reads no signal.
LoopCondition == TRUE

\* Mutant of QueueFull: the queue was made without maxsize.
QueueFull_Unbounded(q) == FALSE

\* Mutant of QueueFull: one message more than maxsize is accepted.
QueueFull_OffByOne(q) == Len(q) > maxsize

\* queue.put blocks while the queue holds maxsize messages.
QueueFull(q) == Len(q) >= maxsize

\* Mutant of Put: the message goes to the head of the queue.
Put_AtHead(q, m) == <<m>> \o q

\* The queue after queue.put(m): first in, first out.
Put(q, m) == Append(q, m)

\* Mutant of RequestBody: a token held from the last response is used even
\* while first_page is still True.
RequestBody_LinkWhenHeld(p, fp, d) ==
    IF fp /\ ~(d.hasMeta /\ d.hasLink) THEN FirstPageBody(p) ELSE NextPageBody(p, d)

\* `if first_page: body = {...} else: body = {...}`
RequestBody(p, fp, d) ==
    IF fp THEN FirstPageBody(p) ELSE NextPageBody(p, d)

\* Top of the loop: build the body and post it. Building the body of a next
\* page reads data["metaData"]["nextPageLink"]; a missing key raises KeyError
\* out of the worker, which ends the process.
FetcherPost ==
    /\ fpc = "loop"
    /\ LoopCondition
    /\ IF ~first_page /\ LinkKeyError(data)
       THEN /\ fpc' = "crashed"
            /\ trace' = trace
       ELSE /\ fpc' = "await"
            /\ trace' = Append(trace,
                 [ev |-> "req",
                  body |-> RequestBody(pipeline, first_page, data)])
    /\ UNCHANGED <<pipeline, first_page, data, queue,
                   wpc, FirstElement, data_chunk, file, written>>
    /\ UNCHANGED <<got, server, call>>

\* Mutant of OnRequestException: the worker goes round the loop again.
OnRequestException_Retry == "loop"

\* `except requests.exceptions.RequestException`: queue.put(None); break
OnRequestException == "putEnd"

\* Mutant of Validate: after a page the worker goes on to its next request
\* without putting the page on the queue.
Validate_Pipelined(p, r) ==
    IF r.exc THEN OnRequestException
    ELSE IF BadStatus(r) THEN "putEnd"
    ELSE IF r.body = "raise" THEN "putEnd"
    ELSE IF r.body = "number" THEN "crashed"
    ELSE IF NoDataInResponse(r) THEN "putEnd"
    ELSE AfterPage(r)

\* Where the worker goes with the outcome r of the post: to the put of None
\* on a fatal condition, to the put of the page, or past it when it is skipped.
Validate(p, r) ==
    IF r.exc THEN OnRequestException
    ELSE IF BadStatus(r) THEN "putEnd"
    ELSE IF r.body = "raise" THEN "putEnd"
    ELSE IF r.body = "number" THEN "crashed"   \* 'data' not in <int>: TypeError
    ELSE IF NoDataInResponse(r) THEN "putEnd"
    ELSE IF SkipPut(p, r) THEN AfterPage(r)
    ELSE "putBatch"

\* The local `data` after the outcome r: kept when the post raised or the
\* status is bad, None when json() raised, else the parsed body.
ParsedData(r, d) ==
    IF r.exc \/ BadStatus(r) THEN d
    ELSE IF r.body = "raise" THEN NoData
    ELSE r

\* The post returns or raises, and the worker validates the response up to
\* its next queue.put.
FetcherReceive ==
    /\ fpc = "await"
    /\ \E r \in Answers :
         /\ trace' = Append(trace, [ev |-> "resp", r |-> r])
         /\ fpc' = Validate(pipeline, r)
         /\ data' = ParsedData(r, data)
    /\ UNCHANGED <<pipeline, first_page, queue,
                   wpc, FirstElement, data_chunk, file, written>>
    /\ UNCHANGED <<got, server, call>>

\* Mutant of PhaseAfterPut: first_page is left as it was.
PhaseAfterPut_Unchanged(fp) == fp

\* `first_page = False` after the put
PhaseAfterPut(fp) == FALSE

\* queue.put(data["data"]) blocks while the queue is full.
FetcherPutBatch ==
    /\ fpc = "putBatch"
    /\ ~QueueFull(queue)
    /\ queue' = Put(queue, Batch(data.items))
    /\ trace' = Append(trace, [ev |-> "put", msg |-> Batch(data.items)])
    /\ first_page' = PhaseAfterPut(first_page)
    /\ fpc' = AfterPage(data)
    /\ UNCHANGED <<pipeline, data, wpc, FirstElement, data_chunk, file, written>>
    /\ UNCHANGED <<got, server, call>>

\* queue.put(None); break
FetcherPutEnd ==
    /\ fpc = "putEnd"
    /\ ~QueueFull(queue)
    /\ queue' = Put(queue, None)
    /\ trace' = Append(trace, [ev |-> "put", msg |-> None])
    /\ fpc' = "done"
    /\ UNCHANGED <<pipeline, first_page, data,
                   wpc, FirstElement, data_chunk, file, written>>
    /\ UNCHANGED <<got, server, call>>

\* ------------------------------------------------- write_json_with_indent

RECURSIVE Spaces(_)
Spaces(n) == IF n = 0 THEN "" ELSE " " \o Spaces(n - 1)

\* json.dumps of a member value
DumpValue(v) == IF v.kind = "str" THEN "\"" \o v.s \o "\"" ELSE ToString(v.n)

\* json.dumps(item, indent=ind).splitlines()
DumpLines(item, ind) ==
    IF Len(item) = 0
    THEN << "{}" >>
    ELSE << "{" >>
         \o [i \in 1..Len(item) |->
               Spaces(ind) \o "\"" \o item[i][1] \o "\": " \o DumpValue(item[i][2])
                 \o (IF i < Len(item) THEN "," ELSE "")]
         \o << "}" >>

RECURSIVE JoinLines(_, _)
JoinLines(lines, sep) ==
    IF Len(lines) = 0 THEN ""
    ELSE IF Len(lines) = 1 THEN lines[1]
    ELSE lines[1] \o sep \o JoinLines(Tail(lines), sep)

\* What write_json_with_indent(item, output_file, indent=ind) writes.
write_json_with_indent(item, ind) ==
    JoinLines([i \in 1..Len(DumpLines(item, ind)) |->
                 Spaces(ind) \o DumpLines(item, ind)[i]], "\n")

\* ------------------------------------------------------- main's write loop

\* Mutant of SkipItem: only the bare {"name": "other"} object is skipped.
SkipItem_ExactOther(p, item) == p = "flow" /\ item = Other

\* `if item.get("name") == "other": continue` exists in the flow script only.
SkipItem(p, item) == p = "flow" /\ IsOther(item)

\* Mutant of ItemText: the separator is written after each element.
ItemText_TrailingSeparator(first, item) ==
    write_json_with_indent(item, indent) \o ",\n"

\* The text one iteration of `for item in data_chunk` writes.
ItemText(first, item) ==
    (IF first THEN "" ELSE ",\n") \o write_json_with_indent(item, indent)

\* Mutant of FirstElementAfter: the flag is cleared for a skipped item too.
FirstElementAfter_Skipped(first, skipped) == FALSE

\* FirstElement after one iteration: `continue` comes before the
\* `if not FirstElement: ... else: FirstElement = False`.
FirstElementAfter(first, skipped) == IF skipped THEN first ELSE FALSE

\* open(output_filename, 'w'); output_file.write("[\n"); FirstElement = True
WriterOpen ==
    /\ wpc = "open"
    /\ file' = "[\n"
    /\ FirstElement' = TRUE
    /\ wpc' = "get"
    /\ UNCHANGED <<pipeline, fpc, first_page, data, queue, trace,
                   data_chunk, written>>
    /\ UNCHANGED <<got, server, call>>

\* data_chunk = queue.get(); None ends the loop and the array is closed.
WriterGet ==
    /\ wpc = "get"
    /\ Len(queue) > 0
    /\ queue' = Tail(queue)
    /\ got' = Append(got, Head(queue))
    /\ IF Head(queue) = None
       THEN /\ file' = file \o "\n]"
            /\ wpc' = "join"
            /\ data_chunk' = <<>>
       ELSE /\ file' = file
            /\ data_chunk' = Head(queue).items
            /\ wpc' = IF Len(Head(queue).items) = 0 THEN "get" ELSE "write"
    /\ UNCHANGED <<pipeline, fpc, first_page, data, trace, FirstElement, written>>
    /\ UNCHANGED <<server, call>>

\* One iteration of `for item in data_chunk`.
WriterItem ==
    /\ wpc = "write"
    /\ LET item == Head(data_chunk) IN
         /\ IF SkipItem(pipeline, item)
            THEN UNCHANGED <<file, written>>
            ELSE /\ file' = file \o ItemText(FirstElement, item)
                 /\ written' = Append(written, item)
         /\ FirstElement' = FirstElementAfter(FirstElement, SkipItem(pipeline, item))
    /\ data_chunk' = Tail(data_chunk)
    /\ wpc' = IF Len(data_chunk) = 1 THEN "get" ELSE "write"
    /\ UNCHANGED <<pipeline, fpc, first_page, data, queue, trace>>
    /\ UNCHANGED <<got, server, call>>

\* A write to output_file (or its open) raises OSError: the exception leaves
\* main's `with` block and the write loop; nothing is put, set or sent for the
\* worker to see. The failing write is "[\n", an element (after its separator
\* was or was not written), or the closing "\n]". The element's write comes
\* after `FirstElement = False`.
WriterIOError ==
    /\ wpc' = "aborted"
    /\ \/ /\ wpc = "open"
          /\ UNCHANGED <<file, queue, got, FirstElement>>
       \/ /\ wpc = "write"
          /\ ~SkipItem(pipeline, Head(data_chunk))
          /\ file' \in {file} \cup (IF FirstElement THEN {} ELSE {file \o ",\n"})
          /\ FirstElement' = FALSE
          /\ UNCHANGED <<queue, got>>
       \/ /\ wpc = "get"
          /\ Len(queue) > 0
          /\ Head(queue) = None
          /\ queue' = Tail(queue)
          /\ got' = Append(got, Head(queue))
          /\ file' = file
          /\ UNCHANGED FirstElement
    /\ UNCHANGED <<pipeline, fpc, first_page, data, trace,
                   data_chunk, written, server, call>>

\* fetcher.join() returns once the worker process has ended.
WriterJoin ==
    /\ wpc = "join"
    /\ fpc \in {"done", "crashed"}
    /\ wpc' = "done"
    /\ UNCHANGED <<pipeline, fpc, first_page, data, queue, trace,
                   FirstElement, data_chunk, file, written>>
    /\ UNCHANGED <<got, server, call>>

\* ------------------------------------------------- human_to_rfc3339_nano

\* Python values that are not JSON items: None, and text on which the code
\* computes, which is a sequence of one-character strings.
NoneV == [kind |-> "none", s |-> "", n |-> 0]
TextV(cs) == [kind |-> "text", c |-> cs]

Digits == <<"0", "1", "2", "3", "4", "5", "6", "7", "8", "9">>
IsDigit(c) == \E i \in 1..Len(Digits) : Digits[i] = c
DigitVal(c) == (CHOOSE i \in 1..Len(Digits) : Digits[i] = c) - 1

\* The number a run of decimal digits denotes.
RECURSIVE Num(_)
Num(cs) ==
    IF Len(cs) = 0 THEN 0
    ELSE Num(SubSeq(cs, 1, Len(cs) - 1)) * 10 + DigitVal(cs[Len(cs)])

\* '%d' % n for n >= 0
RECURSIVE Dec(_)
Dec(n) ==
    IF n < 10 THEN <<Digits[n + 1]>>
    ELSE Dec(n \div 10) \o <<Digits[(n % 10) + 1]>>

\* '%0wd' % n for n >= 0
RECURSIVE PadLeft(_, _)
PadLeft(cs, w) == IF Len(cs) >= w THEN cs ELSE PadLeft(<<"0">> \o cs, w)
ZeroPad(n, w) == PadLeft(Dec(n), w)

\* The text split into its maximal runs of digits and its other characters.
RECURSIVE Runs(_)
Runs(cs) ==
    IF Len(cs) = 0 THEN <<>>
    ELSE LET rest == Runs(Tail(cs))
             c == Head(cs)
         IN  IF IsDigit(c) /\ Len(rest) > 0 /\ IsDigit(rest[1][1])
             THEN << <<c>> \o rest[1] >> \o Tail(rest)
             ELSE << <<c>> >> \o rest

IsLeap(y) == (y % 4 = 0 /\ y % 100 # 0) \/ y % 400 = 0
DaysIn(y, m) ==
    IF m = 2 THEN (IF IsLeap(y) THEN 29 ELSE 28)
    ELSE IF m \in {4, 6, 9, 11} THEN 30 ELSE 31

NoDatetime ==
    [ok |-> FALSE, year |-> 0, month |-> 0, day |-> 0,
     hour |-> 0, minute |-> 0, second |-> 0, tzinfo |-> NoneV]

\* datetime.strptime(human_time, "%Y-%m-%d %H:%M:%S"): four digits of year,
\* one or two digits for every other field, each in its range; ok is FALSE
\* where strptime raises ValueError.
strptime(human_time) ==
    LET r == Runs(human_time)
        shape ==
            /\ Len(r) = 11
            /\ \A i \in {1, 3, 5, 7, 9, 11} : IsDigit(r[i][1])
            /\ Len(r[1]) = 4
            /\ \A i \in {3, 5, 7, 9, 11} : Len(r[i]) <= 2
            /\ r[2] = <<"-">> /\ r[4] = <<"-">> /\ r[6] = <<" ">>
            /\ r[8] = <<":">> /\ r[10] = <<":">>
    IN  IF ~shape THEN NoDatetime
        ELSE LET y == Num(r[1])
                 m == Num(r[3])
                 d == Num(r[5])
                 H == Num(r[7])
                 M == Num(r[9])
                 S == Num(r[11])
             IN  IF /\ y >= 1
                    /\ m \in 1..12
                    /\ d >= 1 /\ d <= DaysIn(y, m)
                    /\ H <= 23 /\ M <= 59 /\ S <= 59
                 THEN [ok |-> TRUE, year |-> y, month |-> m, day |-> d,
                       hour |-> H, minute |-> M, second |-> S, tzinfo |-> NoneV]
                 ELSE NoDatetime

\* timedelta(seconds=s), normalised by Python to days and 0 <= seconds < 86400
timedelta(s) == [days |-> s \div 86400, seconds |-> s % 86400]

\* The offset the call asks for: tz_offset_min minutes, or the local zone's.
OffsetSeconds(tz_offset_min, local_offset_sec) ==
    IF tz_offset_min = NoneV THEN local_offset_sec ELSE tz_offset_min.n * 60

\* timezone(offset) raises ValueError unless -24h < offset < 24h
TimezoneRaises(offset) ==
    ~(offset.days * 86400 + offset.seconds > -86400
      /\ offset.days * 86400 + offset.seconds < 86400)

\* Mutant of ReplaceTzinfo: the time of day is moved by the offset.
ReplaceTzinfo_Shifted(dt, tz) ==
    [dt EXCEPT !.tzinfo = tz,
               !.hour = ((dt.hour * 3600 + tz.days * 86400 + tz.seconds) % 86400) \div 3600]

\* dt.replace(tzinfo=tz): the date and time fields stay as they are
ReplaceTzinfo(dt, tz) == [dt EXCEPT !.tzinfo = tz]

\* dt.strftime('%Y-%m-%dT%H:%M:%S'); the C library pads the year to four
\* digits or not (glibc does not), which shows for years below 1000.
StrftimeBase(dt, padYear) ==
    (IF padYear THEN ZeroPad(dt.year, 4) ELSE Dec(dt.year))
    \o <<"-">> \o ZeroPad(dt.month, 2) \o <<"-">> \o ZeroPad(dt.day, 2) \o <<"T">>
    \o ZeroPad(dt.hour, 2) \o <<":">> \o ZeroPad(dt.minute, 2)
    \o <<":">> \o ZeroPad(dt.second, 2)

\* dt.strftime('%z'): sign, hours and minutes of the offset, and its seconds
\* when it has any.
StrftimeZ(dt) ==
    LET off == dt.tzinfo
        neg == off.days < 0
        secs == IF neg THEN 0 - (off.days * 86400 + off.seconds)
                ELSE off.days * 86400 + off.seconds
    IN  <<IF neg THEN "-" ELSE "+">>
        \o ZeroPad(secs \div 3600, 2) \o ZeroPad((secs % 3600) \div 60, 2)
        \o (IF secs % 60 # 0 THEN ZeroPad(secs % 60, 2) ELSE <<>>)

\* offset[:3] + ':' + offset[3:], or '+00:00' for an empty offset
InsertColon(offset) ==
    IF Len(offset) > 0
    THEN SubSeq(offset, 1, 3) \o <<":">> \o SubSeq(offset, 4, Len(offset))
    ELSE <<"+", "0", "0", ":", "0", "0">>

\* nanos = '.000000000'
nanos == <<".", "0", "0", "0", "0", "0", "0", "0", "0", "0">>

\* What human_to_rfc3339_nano returns for the datetime it built.
Rfc3339(dt, padYear) == StrftimeBase(dt, padYear) \o nanos \o InsertColon(StrftimeZ(dt))

\* The results the function can return for (human_time, tz_offset_min) in a
\* process whose local offset is local_offset_sec; empty where it raises.
human_to_rfc3339_nano(human_time, tz_offset_min, local_offset_sec) ==
    LET dt == strptime(human_time)
        offset == timedelta(OffsetSeconds(tz_offset_min, local_offset_sec))
    IN  IF ~dt.ok \/ TimezoneRaises(offset) THEN {}
        ELSE { Rfc3339(ReplaceTzinfo(dt, offset), padYear) :
                 padYear \in (IF dt.year < 1000 THEN BOOLEAN ELSE {TRUE}) }

\* The pipeline is not running while a single call is looked at.
pipelineVars ==
    <<pipeline, fpc, first_page, data, queue, trace,
      wpc, FirstElement, data_chunk, file, written, got, server>>

\* A call of human_to_rfc3339_nano, step by step.
RfcCall(human_time, tz_offset_min, local_offset_sec) ==
    [fn |-> "human_to_rfc3339_nano", pc |-> "strptime",
     human_time |-> human_time, tz_offset_min |-> tz_offset_min,
     local_offset_sec |-> local_offset_sec,
     dt |-> NoDatetime, result |-> <<>>]

\* dt = datetime.strptime(human_time, time_format)
RfcStrptime ==
    /\ call.fn = "human_to_rfc3339_nano"
    /\ call.pc = "strptime"
    /\ call' = [call EXCEPT
                  !.dt = strptime(call.human_time),
                  !.pc = IF strptime(call.human_time).ok THEN "timezone" ELSE "raised"]
    /\ UNCHANGED pipelineVars

\* tz = timezone(timedelta(...)); dt = dt.replace(tzinfo=tz)
RfcTimezone ==
    /\ call.fn = "human_to_rfc3339_nano"
    /\ call.pc = "timezone"
    /\ LET offset == timedelta(OffsetSeconds(call.tz_offset_min, call.local_offset_sec))
       IN  call' = IF TimezoneRaises(offset)
                   THEN [call EXCEPT !.pc = "raised"]
                   ELSE [call EXCEPT !.pc = "strftime",
                                     !.dt = ReplaceTzinfo(call.dt, offset)]
    /\ UNCHANGED pipelineVars

\* base, nanos, offset; return f"{base}{nanos}{offset}"
RfcFormat ==
    /\ call.fn = "human_to_rfc3339_nano"
    /\ call.pc = "strftime"
    /\ \E padYear \in (IF call.dt.year < 1000 THEN BOOLEAN ELSE {TRUE}) :
         call' = [call EXCEPT !.pc = "returned",
                              !.result = Rfc3339(call.dt, padYear)]
    /\ UNCHANGED pipelineVars

\* ------------------------------------------------------ human_to_unixtime

\* Days from 1970-01-01 to the given date of the Gregorian calendar.
DaysFromCivil(y, m, d) ==
    LET yy == IF m <= 2 THEN y - 1 ELSE y
        era == yy \div 400
        yoe == yy - era * 400
        mp == (m + 9) % 12
        doy == (153 * mp + 2) \div 5 + d - 1
        doe == yoe * 365 + yoe \div 4 - yoe \div 100 + doy
    IN  era * 146097 + doe - 719468

\* int(time.mktime(dt.timetuple())) in a zone local_offset_sec east of UTC
\* that has no daylight saving time.
mktime(dt, local_offset_sec) ==
    DaysFromCivil(dt.year, dt.month, dt.day) * 86400
    + dt.hour * 3600 + dt.minute * 60 + dt.second - local_offset_sec

\* The integer n * 1000, kept as its number of thousands (the product of a
\* Unix time and 1000 does not fit 32 bits).
Thousands(n) == [kind |-> "int", s |-> "thousands", n |-> n]

\* human_to_unixtime(human_time) * 1000; empty where strptime raises.
human_to_unixtime_ms(human_time, local_offset_sec) ==
    IF strptime(human_time).ok
    THEN {Thousands(mktime(strptime(human_time), local_offset_sec))}
    ELSE {}

\* ------------------------------------------------------------ load_config

BoolV(b) == [kind |-> "bool", b |-> b]

\* A variable that is not set, a key that is not in the file.
Absent == [kind |-> "absent"]

TimeText(y, m, d, H, M, S) ==
    ZeroPad(y, 4) \o <<"-">> \o ZeroPad(m, 2) \o <<"-">> \o ZeroPad(d, 2) \o <<" ">>
    \o ZeroPad(H, 2) \o <<":">> \o ZeroPad(M, 2) \o <<":">> \o ZeroPad(S, 2)

\* os.getenv(name, default)
getenv(env, name, default) == IF env[name] = Absent THEN default ELSE env[name]

\* config.get(key, default); config.get(key) is Get(config, key, NoneV)
Get(config, key, default) == IF config[key] = Absent THEN default ELSE config[key]

\* Mutant of EnvOrConfig: the file's value is taken before the environment's.
EnvOrConfig_FileFirst(env, config, name, key, default) ==
    Get(config, key, getenv(env, name, default))

\* os.getenv(NAME, config.get(key, default))
EnvOrConfig(env, config, name, key, default) ==
    getenv(env, name, Get(config, key, default))

\* Python truth of a command-line value: None and '' are false.
Truthy(v) == v # NoneV /\ ~(v.kind = "text" /\ Len(v.c) = 0)

\* cli_args.attr if cli_args and cli_args.attr else os.getenv(NAME, config.get(key, default))
CliOrEnvOrConfig(cli_args, attr, env, config, name, key, default) ==
    IF cli_args # NoneV /\ Truthy(cli_args[attr])
    THEN cli_args[attr]
    ELSE EnvOrConfig(env, config, name, key, default)

\* int(x) raises ValueError for text that is not a decimal numeral
IntRaises(x) ==
    x.kind = "text" /\ (Len(x.c) = 0 \/ \E i \in 1..Len(x.c) : ~IsDigit(x.c[i]))

\* int(x) for a numeral or an integer
IntOf(x) == IF x.kind = "text" THEN IntV(Num(x.c)) ELSE x

Lowercase == <<"a", "b", "d", "e", "f", "g", "i", "l", "n", "o", "r", "s", "t", "u", "w", "y">>
Uppercase == <<"A", "B", "D", "E", "F", "G", "I", "L", "N", "O", "R", "S", "T", "U", "W", "Y">>

\* c.upper() and c.lower() of one character (the letters that occur)
UpperChar(c) ==
    IF \E i \in 1..Len(Lowercase) : Lowercase[i] = c
    THEN Uppercase[CHOOSE i \in 1..Len(Lowercase) : Lowercase[i] = c]
    ELSE c
LowerChar(c) ==
    IF \E i \in 1..Len(Uppercase) : Uppercase[i] = c
    THEN Lowercase[CHOOSE i \in 1..Len(Uppercase) : Uppercase[i] = c]
    ELSE c

\* x.upper(), x.lower()
Upper(x) == TextV([i \in 1..Len(x.c) |-> UpperChar(x.c[i])])
Lower(x) == TextV([i \in 1..Len(x.c) |-> LowerChar(x.c[i])])

\* str(x) of a JSON boolean or of text
Str(x) ==
    IF x.kind = "bool"
    THEN TextV(IF x.b THEN <<"T", "r", "u", "e">> ELSE <<"F", "a", "l", "s", "e">>)
    ELSE x

\* x in ('1', 'true', 'yes')
IsYes(x) == x.c \in { <<"1">>, <<"t", "r", "u", "e">>, <<"y", "e", "s">> }

\* The settings' names in the script: the limit's key and variable, and the
\* file key of the log level.
LimitKey(script) == IF script = "flow" THEN "limit_flow" ELSE "limit_event"
LimitVar(script) == IF script = "flow" THEN "LIMIT_FLOW" ELSE "LIMIT_EVENT"
LimitDefault(script) == IF script = "flow" THEN IntV(204800) ELSE IntV(2048)
LogLevelKey(script) == IF script = "flow" THEN "LOG_LEVEL" ELSE "log_level"

DefaultStart == TextV(TimeText(2024, 2, 20, 3, 4, 0))
DefaultStop == TextV(TimeText(2025, 2, 22, 15, 4, 0))
DefaultVCO == StrV("vco99-us.velocloud.net")
DefaultAUTHTOKEN == StrV("your_default_token")
DefaultBasepath == StrV("/portal/rest/")
DefaultEdgeID == IntV(12345)
DefaultLogLevel == TextV(<<"I", "N", "F", "O">>)
DefaultSslVerify == TextV(<<"T", "r", "u", "e">>)

EnvVars ==
    {"LIMIT_FLOW", "LIMIT_EVENT", "START_HUMAN", "STOP_HUMAN", "VCO", "AUTHTOKEN",
     "BASEPATH", "EDGEID", "LOG_LEVEL", "ENTERPRISEID", "SSL_VERIFY"}

\* The keys of the dictionary load_config reads and returns.
ConfigKeys ==
    {"limit_flow", "limit_event", "start_human", "stop_human", "VCO", "AUTHTOKEN",
     "basepath", "EdgeID", "LOG_LEVEL", "log_level", "enterpriseId", "ssl_verify",
     "start", "stop"}

\* A call of load_config(config_file, cli_args), step by step.
\*   readable : config_file opens and parses
\*   parsed   : what it parses to
\*   env      : os.environ
LoadConfigCall(script, readable, parsed, env, cli_args, local_offset_sec) ==
    [fn |-> "load_config", pc |-> "open", script |-> script, readable |-> readable,
     file |-> parsed, env |-> env, cli_args |-> cli_args,
     local_offset_sec |-> local_offset_sec,
     config |-> [k \in ConfigKeys |-> Absent], enterprise_id |-> NoneV,
     exc |-> "none"]

\* with open(config_file) ...: config = parser.load(file); sys.exit(1) on failure
ConfigOpen ==
    /\ call.fn = "load_config"
    /\ call.pc = "open"
    /\ call' = IF call.readable
               THEN [call EXCEPT !.pc = "settings", !.config = call.file]
               ELSE [call EXCEPT !.pc = "exited", !.exc = "SystemExit(1)"]
    /\ UNCHANGED pipelineVars

\* The assignments from config['limit_...'] down to config['log_level'].
\* int() of the limit, and in the flow script of EdgeID, may raise ValueError.
ConfigSettings ==
    /\ call.fn = "load_config"
    /\ call.pc = "settings"
    /\ LET script == call.script
           env == call.env
           c0 == call.config
           limit == EnvOrConfig(env, c0, LimitVar(script), LimitKey(script),
                                LimitDefault(script))
           c1 == [c0 EXCEPT
                    ![LimitKey(script)] = IntOf(limit),
                    !["start_human"] =
                        CliOrEnvOrConfig(call.cli_args, "start_human", env, c0,
                                         "START_HUMAN", "start_human", DefaultStart),
                    !["stop_human"] =
                        CliOrEnvOrConfig(call.cli_args, "stop_human", env, c0,
                                         "STOP_HUMAN", "stop_human", DefaultStop),
                    !["VCO"] = EnvOrConfig(env, c0, "VCO", "VCO", DefaultVCO),
                    !["AUTHTOKEN"] =
                        EnvOrConfig(env, c0, "AUTHTOKEN", "AUTHTOKEN", DefaultAUTHTOKEN),
                    !["basepath"] =
                        EnvOrConfig(env, c0, "BASEPATH", "basepath", DefaultBasepath)]
           edge == EnvOrConfig(env, c1, "EDGEID", "EdgeID", DefaultEdgeID)
           c2 == IF script = "flow" THEN [c1 EXCEPT !["EdgeID"] = IntOf(edge)] ELSE c1
           c3 == [c2 EXCEPT !["log_level"] =
                    Upper(EnvOrConfig(env, c2, "LOG_LEVEL", LogLevelKey(script),
                                      DefaultLogLevel))]
       IN  call' = IF IntRaises(limit) \/ (script = "flow" /\ IntRaises(edge))
                   THEN [call EXCEPT !.pc = "raised", !.exc = "ValueError"]
                   ELSE [call EXCEPT !.pc = "enterpriseId", !.config = c3]
    /\ UNCHANGED pipelineVars

\* Mutant of IsMissing: the test for None is left out.
IsMissing_Unchecked(enterprise_id) == FALSE

\* `if enterprise_id is None`
IsMissing(enterprise_id) == enterprise_id = NoneV

\* enterprise_id = os.getenv('ENTERPRISEID', config.get('enterpriseId'));
\* sys.exit(1) if it is None; config['enterpriseId'] = int(enterprise_id)
ConfigEnterpriseId ==
    /\ call.fn = "load_config"
    /\ call.pc = "enterpriseId"
    /\ LET enterprise_id ==
               EnvOrConfig(call.env, call.config, "ENTERPRISEID", "enterpriseId", NoneV)
       IN  call' =
             IF IsMissing(enterprise_id)
             THEN [call EXCEPT !.pc = "exited", !.exc = "SystemExit(1)"]
             ELSE IF IntRaises(enterprise_id)
             THEN [call EXCEPT !.pc = "raised", !.exc = "ValueError",
                               !.enterprise_id = enterprise_id]
             ELSE [call EXCEPT !.pc = "convert",
                               !.enterprise_id = enterprise_id,
                               !.config = [call.config EXCEPT
                                             !["enterpriseId"] = IntOf(enterprise_id)]]
    /\ UNCHANGED pipelineVars

\* What the script makes of a human time: RFC 3339 text in the flow script,
\* Unix milliseconds in the events script; empty where the conversion raises.
ConvertTime(script, human, local_offset_sec) ==
    IF script = "flow"
    THEN {TextV(t) : t \in human_to_rfc3339_nano(human.c, NoneV, local_offset_sec)}
    ELSE human_to_unixtime_ms(human.c, local_offset_sec)

\* config['ssl_verify'], config['start'], config['stop']; return config
ConfigConvert ==
    /\ call.fn = "load_config"
    /\ call.pc = "convert"
    /\ LET c == call.config
           ssl == Lower(getenv(call.env, "SSL_VERIFY",
                               Str(Get(c, "ssl_verify", DefaultSslVerify))))
           starts == ConvertTime(call.script, c["start_human"], call.local_offset_sec)
           stops == ConvertTime(call.script, c["stop_human"], call.local_offset_sec)
       IN  IF starts = {} \/ stops = {}
           THEN call' = [call EXCEPT !.pc = "raised", !.exc = "ValueError"]
           ELSE \E start \in starts, stop \in stops :
                  call' = [call EXCEPT
                             !.pc = "returned",
                             !.config = [c EXCEPT !["ssl_verify"] = BoolV(IsYes(ssl)),
                                                  !["start"] = start,
                                                  !["stop"] = stop]]
    /\ UNCHANGED pipelineVars

\* ------------------------------------------------------------ specification

\* The state after fetcher.start(): the worker is at the top of its loop with
\* first_page = True, the main process is about to open the output file.
\* No call of load_config or human_to_rfc3339_nano is looked at.
NoCall == [fn |-> "none"]

\* The pages of a long run: one more page each time, then the last one.
LongRunPages ==
    { Page(<<ItemA>>, TRUE, TRUE, TRUE, TRUE, "T1"),
      Page(<<ItemB>>, TRUE, TRUE, FALSE, FALSE, "") }

InitPipeline ==
    /\ pipeline \in {"flow", "events"}
    /\ fpc = "loop"
    /\ first_page = TRUE
    /\ data = NoData
    /\ queue = <<>>
    /\ trace = <<>>
    /\ wpc = "open"
    /\ FirstElement = TRUE
    /\ data_chunk = <<>>
    /\ file = ""
    /\ written = <<>>
    /\ got = <<>>
    /\ call = NoCall

\* A run against a server that may answer a request in any way.
Init ==
    /\ InitPipeline
    /\ server = [answers |-> Responses, max |-> MaxRequests]

\* A run against a server that serves up to MaxPages well-formed pages.
InitLongRun ==
    /\ InitPipeline
    /\ server = [answers |-> LongRunPages, max |-> MaxPages]

\* The steps of a run whose output file can be written without error.
Next ==
    \/ FetcherPost
    \/ FetcherReceive
    \/ FetcherPutBatch
    \/ FetcherPutEnd
    \/ WriterOpen
    \/ WriterGet
    \/ WriterItem
    \/ WriterJoin

\* The steps of a run in which writing the output file may fail.
NextIOError ==
    \/ Next
    \/ WriterIOError

\* A run of at most MaxRequests requests against any server.
Spec == Init /\ [][Next]_vars

\* A run of up to MaxPages pages in which main may abort on an I/O error.
SpecLongRun == InitLongRun /\ [][NextIOError]_vars

\* The answers of a run that exercises the worker's first_page and main's
\* FirstElement: pages of only "other" items, an empty page, pages with items,
\* a second token, and a failure.
PagingResponses ==
    { Page(<<Other>>, TRUE, TRUE, TRUE, TRUE, "T1"),
      Page(<<Other>>, TRUE, TRUE, FALSE, FALSE, ""),
      Page(<<>>, TRUE, TRUE, TRUE, TRUE, "T1"),
      Page(<<ItemA>>, TRUE, TRUE, TRUE, TRUE, "T1"),
      Page(<<Other, Other>>, TRUE, TRUE, TRUE, TRUE, "T1"),
      Page(<<ItemB>>, TRUE, TRUE, TRUE, TRUE, "T2"),
      Page(<<ItemB, OtherX>>, TRUE, TRUE, FALSE, FALSE, ""),
      TransportError }

\* A run of up to MaxPagingRequests requests against that server.
InitPaging ==
    /\ InitPipeline
    /\ server = [answers |-> PagingResponses, max |-> MaxPagingRequests]

SpecPaging == InitPaging /\ [][Next]_vars

\* ---------------------------------------- specifications of single calls

\* The state before main has started the pipeline.
IdlePipeline ==
    /\ pipeline = "flow"
    /\ fpc = "loop"
    /\ first_page = TRUE
    /\ data = NoData
    /\ queue = <<>>
    /\ trace = <<>>
    /\ wpc = "open"
    /\ FirstElement = TRUE
    /\ data_chunk = <<>>
    /\ file = ""
    /\ written = <<>>
    /\ got = <<>>
    /\ server = [answers |-> {}, max |-> 0]

\* The human times a call is given: well-formed ones, one without leading
\* zeros, a year below 1000, a day that does not exist, a second out of
\* range, and text that is no time.
HumanTimes ==
    { TimeText(2024, 2, 20, 3, 4, 0),
      TimeText(2024, 2, 29, 23, 59, 59),
      TimeText(2025, 12, 31, 0, 0, 0),
      TimeText(999, 1, 1, 12, 30, 0),
      TimeText(2024, 2, 30, 3, 4, 0),
      TimeText(2024, 2, 20, 3, 4, 60),
      <<"2", "0", "2", "4", "-", "2", "-", "3", " ", "4", ":", "5", ":", "6">>,
      <<"n", "o", "w">> }

\* The tz_offset_min a call is given: None, or a number of minutes.
Offsets ==
    {NoneV} \cup
    { IntV(m) : m \in {0 - 1440, 0 - 1439, 0 - 720, 0 - 330, 0 - 120, 0 - 90, 0 - 1,
                       0, 1, 59, 60, 120, 330, 1439, 1440} }

\* The local zone's offset in seconds (used when tz_offset_min is None).
LocalOffsets == {0, 3600, 0 - 12600}

InitTime ==
    /\ IdlePipeline
    /\ \E human_time \in HumanTimes, tz_offset_min \in Offsets,
          local_offset_sec \in LocalOffsets :
         /\ tz_offset_min # NoneV => local_offset_sec = 0
         /\ call = RfcCall(human_time, tz_offset_min, local_offset_sec)

NextTime ==
    \/ RfcStrptime
    \/ RfcTimezone
    \/ RfcFormat

\* One call of human_to_rfc3339_nano.
SpecTime == InitTime /\ [][NextTime]_vars

\* What each source holds for a setting when it provides it: a different
\* value in the environment and in the file, and neither is the default.
EnvValue(name) ==
    CASE name \in {"LIMIT_FLOW", "LIMIT_EVENT"} -> TextV(<<"1", "0">>)
      [] name = "START_HUMAN" -> TextV(TimeText(2024, 1, 1, 0, 0, 2))
      [] name = "STOP_HUMAN" -> TextV(TimeText(2024, 1, 2, 0, 0, 2))
      [] name = "VCO" -> StrV("vco.env")
      [] name = "AUTHTOKEN" -> StrV("token-env")
      [] name = "BASEPATH" -> StrV("/env/")
      [] name = "EDGEID" -> TextV(<<"1", "1">>)
      [] name = "LOG_LEVEL" -> TextV(<<"d", "e", "b", "u", "g">>)
      [] name = "ENTERPRISEID" -> TextV(<<"9", "9">>)
      [] name = "SSL_VERIFY" -> TextV(<<"n", "o">>)

FileValue(key) ==
    CASE key \in {"limit_flow", "limit_event"} -> IntV(20)
      [] key = "start_human" -> TextV(TimeText(2024, 1, 1, 0, 0, 3))
      [] key = "stop_human" -> TextV(TimeText(2024, 1, 2, 0, 0, 3))
      [] key = "VCO" -> StrV("vco.file")
      [] key = "AUTHTOKEN" -> StrV("token-file")
      [] key = "basepath" -> StrV("/file/")
      [] key = "EdgeID" -> IntV(22)
      [] key \in {"LOG_LEVEL", "log_level"} ->
            TextV(<<"W", "a", "r", "n", "i", "n", "g">>)
      [] key = "enterpriseId" -> IntV(7)
      [] key = "ssl_verify" -> BoolV(TRUE)
      [] OTHER -> Absent

\* An environment value that is not a number.
NotANumber == TextV(<<"1", "0", "k">>)

\* The settings, and the variable and keys that hold each.
Settings ==
    {"limit", "start_human", "stop_human", "strings", "EdgeID", "log_level",
     "enterpriseId", "ssl_verify"}

SettingOf(name) ==
    CASE name \in {"LIMIT_FLOW", "LIMIT_EVENT", "limit_flow", "limit_event"} -> "limit"
      [] name \in {"START_HUMAN", "start_human"} -> "start_human"
      [] name \in {"STOP_HUMAN", "stop_human"} -> "stop_human"
      [] name \in {"VCO", "AUTHTOKEN", "BASEPATH", "basepath"} -> "strings"
      [] name \in {"EDGEID", "EdgeID"} -> "EdgeID"
      [] name \in {"LOG_LEVEL", "log_level"} -> "log_level"
      [] name \in {"ENTERPRISEID", "enterpriseId"} -> "enterpriseId"
      [] name \in {"SSL_VERIFY", "ssl_verify"} -> "ssl_verify"
      [] OTHER -> "none"

\* Which of the environment and the file provide each setting: every
\* combination for one setting and for enterpriseId, the other settings
\* provided by both or by none.
Presences ==
    { [s \in Settings |->
         IF s = s1 THEN p1 ELSE IF s = "enterpriseId" THEN pe ELSE base] :
      s1 \in Settings, p1 \in SUBSET {"env", "file"},
      pe \in SUBSET {"env", "file"}, base \in {{}, {"env", "file"}} }

EnvFor(present, bad) ==
    [name \in EnvVars |->
       IF "env" \in present[SettingOf(name)]
       THEN (IF SettingOf(name) = bad THEN NotANumber ELSE EnvValue(name))
       ELSE Absent]

FileFor(present) ==
    [key \in ConfigKeys |->
       IF SettingOf(key) # "none" /\ "file" \in present[SettingOf(key)]
       THEN FileValue(key) ELSE Absent]

\* What the command line gives for a time: nothing, an empty value, a time,
\* or text that is no time.
CliTimes(t) == {NoneV, TextV(<<>>), TextV(t), TextV(<<"n", "o", "w">>)}

CliArgs ==
    {NoneV} \cup
    { [start_human |-> a, stop_human |-> b] :
        a \in CliTimes(TimeText(2024, 1, 1, 0, 0, 1)),
        b \in CliTimes(TimeText(2024, 1, 2, 0, 0, 1)) }

InitConfig ==
    /\ IdlePipeline
    /\ \E script \in {"flow", "events"}, readable \in BOOLEAN,
          present \in Presences, bad \in {"none", "limit", "EdgeID", "enterpriseId"},
          cli_args \in CliArgs :
         /\ ~readable => present = [s \in Settings |-> {}] /\ bad = "none" /\ cli_args = NoneV
         /\ call = LoadConfigCall(script, readable, FileFor(present),
                                  EnvFor(present, bad), cli_args, 3600)

NextConfig ==
    \/ ConfigOpen
    \/ ConfigSettings
    \/ ConfigEnterpriseId
    \/ ConfigConvert

\* One call of load_config.
SpecConfig == InitConfig /\ [][NextConfig]_vars

\* ------------------------- write_json_with_indent, character by character

\* JSON values whose text is computed on: numbers, strings, lists, objects.
JInt(n) == [kind |-> "int", n |-> n]
JStr(cs) == [kind |-> "str", c |-> cs]
JList(vs) == [kind |-> "list", v |-> vs]
JObj(ms) == [kind |-> "obj", m |-> ms]
Member(key, val) == [key |-> key, val |-> val]

\* One character standing for U+2028, a line boundary of str.splitlines().
LineSeparator == "U+2028"

\* sep.join(parts) on texts
RECURSIVE join(_, _)
join(sep, parts) ==
    IF Len(parts) = 0 THEN <<>>
    ELSE IF Len(parts) = 1 THEN parts[1]
    ELSE parts[1] \o sep \o join(sep, Tail(parts))

\* " " * n
CharSpaces(n) == [i \in 1..n |-> " "]

\* json.dumps of one character of a string (ensure_ascii is left True).
EscapeChar(c) ==
    CASE c = "\"" -> <<"\\", "\"">>
      [] c = "\\" -> <<"\\", "\\">>
      [] c = "\n" -> <<"\\", "n">>
      [] c = "\r" -> <<"\\", "r">>
      [] c = LineSeparator -> <<"\\", "u", "2", "0", "2", "8">>
      [] OTHER -> <<c>>

Quoted(cs) == <<"\"">> \o join(<<>>, [i \in 1..Len(cs) |-> EscapeChar(cs[i])]) \o <<"\"">>

\* json.dumps(v, indent=ind) for a value nested `level` containers deep.
RECURSIVE dumps(_, _, _)
dumps(v, ind, level) ==
    LET newline == <<"\n">> \o CharSpaces(ind * (level + 1))
        close == <<"\n">> \o CharSpaces(ind * level)
    IN  CASE v.kind = "int" -> Dec(v.n)
          [] v.kind = "str" -> Quoted(v.c)
          [] v.kind = "list" ->
               IF Len(v.v) = 0 THEN <<"[", "]">>
               ELSE <<"[">>
                    \o join(<<",">>, [i \in 1..Len(v.v) |->
                                        newline \o dumps(v.v[i], ind, level + 1)])
                    \o close \o <<"]">>
          [] v.kind = "obj" ->
               IF Len(v.m) = 0 THEN <<"{", "}">>
               ELSE <<"{">>
                    \o join(<<",">>, [i \in 1..Len(v.m) |->
                                        newline \o Quoted(v.m[i].key) \o <<":", " ">>
                                          \o dumps(v.m[i].val, ind, level + 1)])
                    \o close \o <<"}">>

LineBoundaries == {"\n", "\r", LineSeparator}

\* str.splitlines(): the text cut at every line boundary ("\r\n" is one),
\* boundaries dropped, no empty last line.
RECURSIVE splitlines(_)
splitlines(cs) ==
    IF Len(cs) = 0 THEN <<>>
    ELSE IF \A i \in 1..Len(cs) : cs[i] \notin LineBoundaries THEN <<cs>>
    ELSE LET k == CHOOSE i \in 1..Len(cs) :
                    /\ cs[i] \in LineBoundaries
                    /\ \A j \in 1..(i - 1) : cs[j] \notin LineBoundaries
             w == IF cs[k] = "\r" /\ k < Len(cs) /\ cs[k + 1] = "\n" THEN 2 ELSE 1
         IN  <<SubSeq(cs, 1, k - 1)>> \o splitlines(SubSeq(cs, k + w, Len(cs)))

\* Mutant of IndentLines: every line is ended by a newline.
IndentLines_Terminated(json_str, ind) ==
    join(<<>>, [i \in 1..Len(splitlines(json_str)) |->
                  CharSpaces(ind) \o splitlines(json_str)[i] \o <<"\n">>])

\* "\n".join(" " * indent + line for line in json_str.splitlines())
IndentLines(json_str, ind) ==
    join(<<"\n">>, [i \in 1..Len(splitlines(json_str)) |->
                      CharSpaces(ind) \o splitlines(json_str)[i]])

\* A call of write_json_with_indent(item, output_file, indent) on a file that
\* holds `before`.
WriteCall(item, ind, before) ==
    [fn |-> "write_json_with_indent", pc |-> "dumps",
     item |-> item, indent |-> ind, before |-> before,
     json_str |-> <<>>, indented_json_str |-> <<>>, output_file |-> before]

\* json_str = json.dumps(item, indent=indent)
WriteDumps ==
    /\ call.fn = "write_json_with_indent"
    /\ call.pc = "dumps"
    /\ call' = [call EXCEPT !.json_str = dumps(call.item, call.indent, 0),
                            !.pc = "join"]
    /\ UNCHANGED pipelineVars

\* indented_json_str = "\n".join(...)
WriteIndentLines ==
    /\ call.fn = "write_json_with_indent"
    /\ call.pc = "join"
    /\ call' = [call EXCEPT
                  !.indented_json_str = IndentLines(call.json_str, call.indent),
                  !.pc = "write"]
    /\ UNCHANGED pipelineVars

\* output_file.write(indented_json_str)
WriteOutput ==
    /\ call.fn = "write_json_with_indent"
    /\ call.pc = "write"
    /\ call' = [call EXCEPT
                  !.output_file = call.output_file \o call.indented_json_str,
                  !.pc = "returned"]
    /\ UNCHANGED pipelineVars

\* The largest indent of a call.
MaxIndent == 4

\* The items written: the empty object, flat objects, nested lists and
\* objects, and strings holding a quote, a backslash and line boundaries.
WriteItems ==
    { JObj(<<>>),
      JObj(<<Member(<<"a">>, JInt(1)), Member(<<"b">>, JList(<<JInt(2), JInt(3)>>))>>),
      JObj(<<Member(<<"n", "a", "m", "e">>, JStr(<<"w", "e", "b">>)),
             Member(<<"i", "d">>, JInt(2))>>),
      JObj(<<Member(<<"n", "a", "m", "e">>, JStr(<<"o", "t", "h", "e", "r">>))>>),
      JObj(<<Member(<<"i", "d">>, JInt(10))>>),
      JObj(<<Member(<<"s">>, JStr(<<"x", "\n", "y">>))>>),
      JObj(<<Member(<<"s">>, JStr(<<"x", "\r", "\n", "y", LineSeparator, "z">>))>>),
      JObj(<<Member(<<"q">>, JStr(<<"a", "\"", "b", "\\">>))>>),
      JObj(<<Member(<<"o">>, JObj(<<Member(<<"k">>, JList(<<>>))>>))>>),
      JObj(<<Member(<<"l">>, JList(<<JObj(<<Member(<<"a">>, JInt(1))>>)>>))>>) }

\* What the file holds when the call is made: the opening of the array, or
\* an element and the separator.
FilesBefore ==
    { <<"[", "\n">>,
      <<"[", "\n", "{", "}", ",", "\n">> }

InitWrite ==
    /\ IdlePipeline
    /\ \E item \in WriteItems, ind \in 0..MaxIndent, before \in FilesBefore :
         call = WriteCall(item, ind, before)

NextWrite ==
    \/ WriteDumps
    \/ WriteIndentLines
    \/ WriteOutput

\* One call of write_json_with_indent.
SpecWrite == InitWrite /\ [][NextWrite]_vars

\* ------------------------------------------------------- notions of the claims

RECURSIVE Flatten(_)
Flatten(ss) == IF Len(ss) = 0 THEN <<>> ELSE Head(ss) \o Flatten(Tail(ss))

\* The items of all responses received so far, in response order.
ReceivedItems == Flatten([i \in 1..Len(Received) |-> Received[i].r.items])

NotNamedOther(item) == ~IsOther(item)

\* The array file holding exactly the given elements.
Frame(items) ==
    "[\n"
    \o JoinLines([i \in 1..Len(items) |-> write_json_with_indent(items[i], indent)], ",\n")
    \o "\n]"

\* A 200 response carrying a JSON object with a data list.
WellFormed(r) == ~r.exc /\ r.status = 200 /\ r.body = "object" /\ r.hasData

MoreIsTrue(r) == r.hasMeta /\ r.hasMore /\ r.more

\* The main process has taken None from the queue.
WriterSawStreamEnd == wpc \in {"join", "done"}

IsResp(i) == trace[i].ev = "resp"
IsReq(i) == trace[i].ev = "req"
IsPut(i) == trace[i].ev = "put"
PutNone == [ev |-> "put", msg |-> None]

\* Event i is the worker's last exchange: after it the worker does nothing
\* but put None once, and no None was put before it.
StopsWithStreamEnd(i) ==
    /\ \A j \in 1..i : trace[j] # PutNone
    /\ \/ fpc = "putEnd" /\ Len(trace) = i
       \/ fpc = "done" /\ Len(trace) = i + 1 /\ trace[i + 1] = PutNone

\* ------------------------------------------------------------------ claims

\* C1: in the flow pipeline, when every response was a well-formed 200 and the
\* last one had no more=true, the finished file holds exactly the items of all
\* responses that are not named "other", in response order and in page order.
C1_OutputIsConcatenation ==
    ( /\ pipeline = "flow"
      /\ WriterSawStreamEnd
      /\ Len(Received) > 0
      /\ \A i \in 1..Len(Received) : WellFormed(Received[i].r)
      /\ ~MoreIsTrue(Received[Len(Received)].r) )
    => file = Frame(SelectSeq(ReceivedItems, NotNamedOther))

C1_Witness ==
    /\ pipeline = "flow"
    /\ wpc = "done"
    /\ Len(Received) = 3
    /\ \A i \in 1..3 : WellFormed(Received[i].r)
    /\ Received[1].r.items = <<Other>>
    /\ Received[2].r.items = <<Other, ItemA>>
    /\ Received[3].r.items = <<ItemB, OtherX>>
    /\ written = <<ItemA, ItemB>>

\* C2: when the worker has ended, what it put on the queue is zero or more
\* batches followed by exactly one None, and nothing follows the None.
C2_BatchesThenOneStreamEnd ==
    /\ \A i \in 1..Len(trace) : trace[i] = PutNone => i = Len(trace)
    /\ fpc \in {"done", "crashed"} =>
         /\ Len(Puts) >= 1
         /\ Puts[Len(Puts)] = PutNone
         /\ \A i \in 1..(Len(Puts) - 1) : Puts[i].msg.kind = "batch"

\* C3: once the main process has seen None, the file is "[\n", the written
\* elements with one ",\n" between consecutive ones, and "\n]".
C3_Framing ==
    WriterSawStreamEnd => file = Frame(written)

C3_Witness ==
    /\ wpc = "done"
    /\ Len(Puts) = 4
    /\ Len(written) = 4
    /\ file = "[\n" \o write_json_with_indent(written[1], 4) \o ",\n"
                    \o write_json_with_indent(written[2], 4) \o ",\n"
                    \o write_json_with_indent(written[3], 4) \o ",\n"
                    \o write_json_with_indent(written[4], 4) \o "\n]"

\* C4: in the flow pipeline no item named "other" is ever written.
C4_OtherNeverWritten ==
    pipeline = "flow" => \A i \in 1..Len(written) : ~IsOther(written[i])

C4_Witness ==
    /\ pipeline = "flow"
    /\ wpc = "done"
    /\ Len(Received) = 3
    /\ Received[1].r.items = <<Other, Other>>
    /\ Received[2].r.items = <<ItemB, OtherX>>
    /\ Received[3].r.items = <<Other, ItemA>>
    /\ Len(Puts) = 4
    /\ written = <<ItemB, ItemA>>

\* C5: in the events pipeline no item named "other" is written, and a page
\* that is exactly one such item is not put on the queue.
C5_EventsExcludeOther ==
    pipeline = "events" =>
        /\ \A i \in 1..Len(written) : ~IsOther(written[i])
        /\ \A i \in 1..Len(Puts) : Puts[i].msg # Batch(<<Other>>)

\* C6: in the flow pipeline, when the answer to a first-page request is
\* exactly one item named "other" with more=true, the worker puts nothing on
\* the queue for it and goes back to post another request.
C6_OtherOnlyFirstPageContinues ==
    [][ /\ ( /\ pipeline = "flow"
             /\ fpc = "await"
             /\ first_page
             /\ fpc' # "await"
             /\ Len(trace'[Len(trace')].r.items) = 1
             /\ IsOther(trace'[Len(trace')].r.items[1])
             /\ WellFormed(trace'[Len(trace')].r)
             /\ MoreIsTrue(trace'[Len(trace')].r) )
           => /\ fpc' = "loop"
              /\ first_page'
              /\ queue' = queue
              /\ Len(trace') = Len(trace) + 1
        /\ (fpc = "loop" /\ first_page /\ fpc' # "loop")
           => /\ fpc' = "await"
              /\ trace' = Append(trace, [ev |-> "req", body |-> FirstPageBody(pipeline)])
      ]_vars

C6_Witness ==
    /\ pipeline = "flow"
    /\ Len(trace) >= 4
    /\ trace[2] = [ev |-> "resp", r |-> Page(<<Other>>, TRUE, TRUE, TRUE, TRUE, "T1")]
    /\ IsReq(3)
    /\ trace[4] = [ev |-> "resp", r |-> Page(<<ItemA>>, TRUE, TRUE, FALSE, FALSE, "")]
    /\ Len(Requests) = 2
    /\ Puts = << [ev |-> "put", msg |-> Batch(<<ItemA>>)], PutNone >>
    /\ wpc = "done"
    /\ file = Frame(<<ItemA>>)

\* C7: a response whose status is not 200 makes the worker put exactly one
\* None and stop: no batch and no request follows, whatever was put before.
C7_BadStatusStops ==
    \A i \in 1..Len(trace) :
        (IsResp(i) /\ ~trace[i].r.exc /\ trace[i].r.status # 200)
            => StopsWithStreamEnd(i)

C7_Witness ==
    /\ fpc = "done"
    /\ Len(trace) = 9
    /\ IsPut(3) /\ trace[3].msg.kind = "batch"
    /\ IsPut(6) /\ trace[6].msg.kind = "batch"
    /\ trace[8] = [ev |-> "resp", r |-> Status500]
    /\ trace[9] = PutNone

\* C8: a 200 response that does not parse, parses to an empty or null value
\* or has no data member ends the worker as a non-200 response does: one
\* None, no batch, no further request.
C8_MalformedBodyStops ==
    \A i \in 1..Len(trace) :
        ( /\ IsResp(i)
          /\ ~trace[i].r.exc
          /\ trace[i].r.status = 200
          /\ \/ trace[i].r.body # "object"
             \/ ~trace[i].r.hasData )
            => StopsWithStreamEnd(i)

\* C9: a RequestException raised by the post makes the worker put None and
\* stop without another request; on the first call the queue carries only
\* that None and the finished file is "[\n\n]".
C9_TransportFailureStops ==
    /\ \A i \in 1..Len(trace) :
         (IsResp(i) /\ trace[i].r.exc) => StopsWithStreamEnd(i)
    /\ ( /\ Len(trace) >= 2
         /\ IsResp(2)
         /\ trace[2].r.exc
         /\ WriterSawStreamEnd )
       => Puts = <<PutNone>> /\ file = "[\n\n]"

C9_Witness ==
    /\ Len(trace) = 3
    /\ trace[2] = [ev |-> "resp", r |-> TransportError]
    /\ trace[3] = PutNone
    /\ wpc = "done"
    /\ file = "[\n\n]"

\* C10: when the last response the worker received has more=true and no
\* nextPageLink, the worker ends by putting None.
C10_MissingTokenEndsStream ==
    ( /\ fpc \in {"done", "crashed"}
      /\ Len(Received) > 0
      /\ WellFormed(Received[Len(Received)].r)
      /\ MoreIsTrue(Received[Len(Received)].r)
      /\ ~Received[Len(Received)].r.hasLink )
    => /\ fpc = "done"
       /\ trace[Len(trace)] = PutNone

\* The last response received before event i of the history.
ResponseBefore(i) ==
    trace[CHOOSE j \in 1..(i - 1) :
            IsResp(j) /\ \A k \in (j + 1)..(i - 1) : ~IsResp(k)].r

ScenarioP1 == Page(<<ItemA, ItemB>>, TRUE, TRUE, TRUE, TRUE, "T1")
ScenarioP2 == Page(<<ItemA>>, TRUE, TRUE, FALSE, FALSE, "")

\* C11: every next-page request carries the nextPageLink of the response
\* received just before it, a first-page request carries none, and for the
\* pages P1 (more, token T1), P2 (no more) two requests are posted, the second
\* with T1.
C11_TokenIsPreviousLink ==
    /\ \A i \in 1..Len(trace) :
         IsReq(i) =>
            IF "nextPageLink" \in DOMAIN trace[i].body
            THEN /\ i > 1
                 /\ trace[i].body.page = "next"
                 /\ ResponseBefore(i).hasMeta
                 /\ ResponseBefore(i).hasLink
                 /\ trace[i].body.nextPageLink = ResponseBefore(i).link
            ELSE trace[i].body = FirstPageBody(pipeline)
    /\ (Len(trace) >= 1 => IsReq(1) /\ trace[1].body = FirstPageBody(pipeline))
    /\ ( /\ fpc = "done"
         /\ Len(Received) = 2
         /\ Received[1].r = ScenarioP1
         /\ Received[2].r = ScenarioP2 )
       => /\ Len(Requests) = 2
          /\ Requests[2].body.nextPageLink = "T1"

C11_Witness ==
    /\ fpc = "done"
    /\ Len(Received) = 3
    /\ Received[1].r.link = "T1"
    /\ Received[2].r.link = "T2"
    /\ Len(Requests) = 3
    /\ "nextPageLink" \notin DOMAIN Requests[1].body
    /\ Requests[2].body.page = "next"
    /\ Requests[3].body.page = "next"
    /\ Requests[2].body.nextPageLink = "T1"
    /\ Requests[3].body.nextPageLink = "T2"

\* C12: at every moment the messages main has got from the queue are a prefix
\* of the messages the worker has put: same order, none lost, none twice.
C12_GotIsPrefixOfPut ==
    /\ Len(got) <= Len(Puts)
    /\ \A i \in 1..Len(got) : got[i] = Puts[i].msg

C12_Witness ==
    /\ Len(got) = 2
    /\ got[1] = Batch(<<ItemA, ItemB>>)
    /\ got[2] = Batch(<<ItemB, OtherX>>)
    /\ Len(queue) = 2
    /\ queue[2] = None
    /\ wpc = "write"

\* The page batches fetched and not yet written out: those in the queue, the
\* one the worker holds while its put waits, the one main is iterating.
InFlight ==
    Len(SelectSeq(queue, LAMBDA m : m.kind = "batch"))
    + (IF fpc = "putBatch" THEN 1 ELSE 0)
    + (IF wpc = "write" THEN 1 ELSE 0)

\* C13 as stated: at most maxsize (4) batches are fetched and not yet written.
C13_AtMostCapacity == InFlight <= maxsize

\* C13 amended: at most maxsize + 2 batches are fetched and not yet written:
\* maxsize in the queue, one held by the blocked worker, one being written.
C13_AtMostCapacityPlusTwo ==
    /\ Len(queue) <= maxsize
    /\ InFlight <= maxsize + 2

C13_Witness ==
    /\ Len(queue) = maxsize
    /\ fpc = "putBatch"
    /\ wpc = "write"
    /\ InFlight = maxsize + 2
    /\ Len(Received) = maxsize + 2

\* C14: a run that can take no further step, and was not aborted by an output
\* I/O error, has terminated: the worker put None and returned, main received
\* every message up to it, closed the array with "]" and joined; no run stops
\* with main waiting on the empty queue or the worker waiting on the full one.
C14_StoppedRunHasTerminated ==
    (~ENABLED Next /\ wpc # "aborted") =>
        /\ fpc = "done"
        /\ wpc = "done"
        /\ Len(Puts) >= 1
        /\ Puts[Len(Puts)] = PutNone
        /\ got = [i \in 1..Len(Puts) |-> Puts[i].msg]
        /\ file = Frame(written)

\* The items of a page that the write loop does not pass over.
Writable(items) ==
    IF pipeline = "flow" THEN SelectSeq(items, NotNamedOther) ELSE items

\* The items of the first k responses, in order.
ItemsOfFirst(k) == Flatten([i \in 1..k |-> Received[i].r.items])

Unclosed(items) ==
    "[\n"
    \o JoinLines([i \in 1..Len(items) |-> write_json_with_indent(items[i], indent)], ",\n")

WorkerStep == FetcherPost \/ FetcherReceive \/ FetcherPutBatch \/ FetcherPutEnd

MainStep == WriterOpen \/ WriterGet \/ WriterItem \/ WriterIOError \/ WriterJoin

\* C16: after main has aborted on an output I/O error, the worker is not
\* cancelled: as long as it has not ended by itself it can take its next step
\* (post, receive, put) unless its put waits on the full queue; main does
\* nothing more: it takes nothing from the queue and the file stays without
\* its closing "]".
C16_AbortLeavesWorkerRunning ==
    /\ [](wpc = "aborted" =>
            /\ \/ fpc \in {"done", "crashed"}
               \/ fpc \in {"putBatch", "putEnd"} /\ Len(queue) = maxsize
               \/ ENABLED WorkerStep
            /\ ~ENABLED MainStep
            /\ file \in {"", Unclosed(written), Unclosed(written) \o ",\n"})
    /\ [][wpc = "aborted" =>
            /\ wpc' = "aborted"
            /\ file' = file
            /\ got' = got
            /\ Len(trace') = Len(trace) + 1]_vars

\* main aborted when it opened the file, before the worker's first request;
\* the worker has since fetched five pages and waits to put the fifth.
C16_Witness ==
    /\ wpc = "aborted"
    /\ file = ""
    /\ got = <<>>
    /\ fpc = "putBatch"
    /\ Len(queue) = maxsize
    /\ Len(Requests) = maxsize + 1

\* C17: every batch the worker puts on the queue holds at least one item; a
\* 200 response with an empty data list puts no batch.
C17_BatchesAreNonEmpty ==
    \A i \in 1..Len(Puts) :
        Puts[i].msg.kind = "batch" => Len(Puts[i].msg.items) >= 1

\* A call of human_to_rfc3339_nano with an explicit offset and a human time
\* that is a date and time in the format.
ExplicitOffsetCall ==
    /\ call.fn = "human_to_rfc3339_nano"
    /\ call.tz_offset_min # NoneV
    /\ strptime(call.human_time).ok

\* The input's date and time in the layout YYYY-MM-DDTHH:MM:SS: its own
\* digits, a T for the space, each field at its full width.
SameDateTime(human_time) ==
    LET r == Runs(human_time)
    IN  PadLeft(r[1], 4) \o <<"-">> \o PadLeft(r[3], 2) \o <<"-">> \o PadLeft(r[5], 2)
        \o <<"T">> \o PadLeft(r[7], 2) \o <<":">> \o PadLeft(r[9], 2)
        \o <<":">> \o PadLeft(r[11], 2)

\* The offset of m minutes as sign, |m| div 60, ':', |m| mod 60.
OffsetText(m) ==
    LET a == IF m < 0 THEN 0 - m ELSE m
    IN  <<IF m < 0 THEN "-" ELSE "+">>
        \o ZeroPad(a \div 60, 2) \o <<":">> \o ZeroPad(a % 60, 2)

ExpectedRfc3339 ==
    SameDateTime(call.human_time)
    \o <<".", "0", "0", "0", "0", "0", "0", "0", "0", "0">>
    \o OffsetText(call.tz_offset_min.n)

\* C20 as stated: for every offset of whole minutes the call returns the
\* input's date and time unshifted, '.000000000' and the offset as +HH:MM.
C20_EveryOffset ==
    ExplicitOffsetCall =>
        /\ call.pc # "raised"
        /\ call.pc = "returned" => call.result = ExpectedRfc3339

\* C20 amended: the same for the offsets strictly between -1440 and 1440
\* minutes and the years from 1000 on.
C20_OffsetsWithinADay ==
    ( /\ ExplicitOffsetCall
      /\ call.tz_offset_min.n > 0 - 1440
      /\ call.tz_offset_min.n < 1440
      /\ strptime(call.human_time).year >= 1000 )
    => /\ call.pc # "raised"
       /\ call.pc = "returned" => call.result = ExpectedRfc3339

\* 2024-02-29 23:59:59 at -330 minutes.
C20_Witness ==
    /\ call.fn = "human_to_rfc3339_nano"
    /\ call.pc = "returned"
    /\ call.human_time = TimeText(2024, 2, 29, 23, 59, 59)
    /\ call.tz_offset_min = IntV(0 - 330)
    /\ call.result =
         <<"2", "0", "2", "4", "-", "0", "2", "-", "2", "9", "T",
           "2", "3", ":", "5", "9", ":", "5", "9",
           ".", "0", "0", "0", "0", "0", "0", "0", "0", "0",
           "-", "0", "5", ":", "3", "0">>

\* The first value, in the order given, that a source provides.
RECURSIVE FirstProvided(_)
FirstProvided(vs) ==
    IF Len(vs) = 1 \/ Head(vs) # Absent THEN Head(vs) ELSE FirstProvided(Tail(vs))

\* What the command line provides for a time: the option's value when the
\* option is given with a non-empty value.
CliProvided(attr) ==
    IF call.cli_args # NoneV /\ call.cli_args[attr] # NoneV
       /\ call.cli_args[attr] # TextV(<<>>)
    THEN call.cli_args[attr] ELSE Absent

\* command line > environment > file > default
ByPriority(attr, name, key, default) ==
    FirstProvided(<<CliProvided(attr), call.env[name], call.file[key], default>>)

\* environment > file > default
ByPriorityNoCli(name, key, default) ==
    FirstProvided(<<call.env[name], call.file[key], default>>)

\* C18: in the configuration load_config returns, every setting has the value
\* of the highest source that provides it, in the order command line,
\* environment, file, default (as a number for the numeric settings, in upper
\* case for the log level, as a truth value for ssl_verify), and start and
\* stop are the conversions of the start_human and stop_human so chosen.
C18_PriorityOfSources ==
    (call.fn = "load_config" /\ call.pc = "returned") =>
        LET c == call.config
            script == call.script
        IN  /\ c["start_human"] =
                 ByPriority("start_human", "START_HUMAN", "start_human", DefaultStart)
            /\ c["stop_human"] =
                 ByPriority("stop_human", "STOP_HUMAN", "stop_human", DefaultStop)
            /\ c["enterpriseId"] =
                 IntOf(ByPriorityNoCli("ENTERPRISEID", "enterpriseId", NoneV))
            /\ c[LimitKey(script)] =
                 IntOf(ByPriorityNoCli(LimitVar(script), LimitKey(script),
                                       LimitDefault(script)))
            /\ script = "flow" =>
                 c["EdgeID"] = IntOf(ByPriorityNoCli("EDGEID", "EdgeID", DefaultEdgeID))
            /\ c["VCO"] = ByPriorityNoCli("VCO", "VCO", DefaultVCO)
            /\ c["AUTHTOKEN"] = ByPriorityNoCli("AUTHTOKEN", "AUTHTOKEN", DefaultAUTHTOKEN)
            /\ c["basepath"] = ByPriorityNoCli("BASEPATH", "basepath", DefaultBasepath)
            /\ c["log_level"] =
                 Upper(ByPriorityNoCli("LOG_LEVEL", LogLevelKey(script), DefaultLogLevel))
            /\ c["ssl_verify"] =
                 BoolV(IsYes(Lower(Str(ByPriorityNoCli("SSL_VERIFY", "ssl_verify",
                                                       DefaultSslVerify)))))
            /\ c["start"] \in ConvertTime(script, c["start_human"], call.local_offset_sec)
            /\ c["stop"] \in ConvertTime(script, c["stop_human"], call.local_offset_sec)

\* The command line, the environment and the file all give a start time, the
\* environment and the file a stop time and an enterpriseId, the file alone a
\* limit.
C18_Witness ==
    /\ call.fn = "load_config"
    /\ call.pc = "returned"
    /\ call.script = "flow"
    /\ call.cli_args = [start_human |-> TextV(TimeText(2024, 1, 1, 0, 0, 1)),
                        stop_human |-> NoneV]
    /\ call.env["START_HUMAN"] # Absent /\ call.file["start_human"] # Absent
    /\ call.env["STOP_HUMAN"] # Absent /\ call.file["stop_human"] # Absent
    /\ call.env["ENTERPRISEID"] # Absent /\ call.file["enterpriseId"] # Absent
    /\ call.env["LIMIT_FLOW"] = Absent /\ call.file["limit_flow"] # Absent
    /\ call.config["start_human"] = TextV(TimeText(2024, 1, 1, 0, 0, 1))
    /\ call.config["stop_human"] = TextV(TimeText(2024, 1, 2, 0, 0, 2))
    /\ call.config["enterpriseId"] = IntV(99)
    /\ call.config["limit_flow"] = IntV(20)

\* Neither the environment nor the file provides enterpriseId.
EnterpriseIdMissing ==
    /\ call.fn = "load_config"
    /\ call.env["ENTERPRISEID"] = Absent
    /\ call.file["enterpriseId"] = Absent

\* The call has ended: it returned, exited or raised.
CallEnded == call.pc \in {"returned", "exited", "raised"}

\* C19 as stated: whenever enterpriseId is missing the call ends with
\* SystemExit(1), whatever the other settings are; it returns nothing and
\* puts no default in its place.
C19_MissingAlwaysExits ==
    EnterpriseIdMissing =>
        /\ call.config["enterpriseId"] = Absent
        /\ CallEnded => call.pc = "exited" /\ call.exc = "SystemExit(1)"

\* A numeric setting read before enterpriseId is set in the environment to
\* text that is not a number.
EarlierNumberBad ==
    \/ IntRaises(call.env[LimitVar(call.script)])
    \/ call.script = "flow" /\ IntRaises(call.env["EDGEID"])

\* C19 amended: whenever enterpriseId is missing the call returns nothing and
\* puts no default in its place; it ends with SystemExit(1), unless int() of
\* a setting read earlier raises, and then it ends with that ValueError.
C19_MissingNeverReturns ==
    EnterpriseIdMissing =>
        /\ call.config["enterpriseId"] = Absent
        /\ CallEnded =>
             IF call.readable /\ EarlierNumberBad
             THEN call.pc = "raised" /\ call.exc = "ValueError"
             ELSE call.pc = "exited" /\ call.exc = "SystemExit(1)"

\* Every other setting is provided and the command line gives both times.
C19_Witness ==
    /\ EnterpriseIdMissing
    /\ call.pc = "exited"
    /\ call.exc = "SystemExit(1)"
    /\ call.readable
    /\ call.script = "events"
    /\ call.env["LIMIT_EVENT"] = TextV(<<"1", "0">>)
    /\ call.file["VCO"] # Absent
    /\ call.cli_args = [start_human |-> TextV(TimeText(2024, 1, 1, 0, 0, 1)),
                        stop_human |-> TextV(TimeText(2024, 1, 2, 0, 0, 1))]
    /\ call.config["limit_event"] = IntV(10)

\* C21: the queue never holds more than maxsize (4) messages, batches and
\* None together; while it holds 4 no put of the worker completes, the put of
\* None included: the only change of a full queue is main taking its head.
C21_QueueBounded ==
    /\ [](/\ Len(queue) <= maxsize
          /\ Len(queue) = maxsize => ~ENABLED (FetcherPutBatch \/ FetcherPutEnd))
    /\ [][Len(queue) = maxsize =>
            /\ Len(Puts') = Len(Puts)
            /\ queue' \in {queue, Tail(queue)}]_vars

\* The worker waits to put None on a queue of four batches, and main has
\* already taken a batch.
C21_Witness ==
    /\ fpc = "putEnd"
    /\ Len(queue) = maxsize
    /\ \A i \in 1..maxsize : queue[i].kind = "batch"
    /\ Len(got) >= 1
    /\ Len(Puts) = maxsize + Len(got)

\* The response asks for a batch on the queue: a well-formed page, except in
\* the flow pipeline the page of exactly one item named "other".
NeedsBatch(r) ==
    /\ WellFormed(r)
    /\ ~(pipeline = "flow" /\ Len(r.items) = 1 /\ IsOther(r.items[1]))

\* The responses the worker is done with: received, validated, and the batch,
\* if one is due, accepted by the queue.
FullyProcessed == Len(Received) - (IF fpc = "putBatch" THEN 1 ELSE 0)

\* C22: at most one request is outstanding; the requests issued never exceed
\* the responses fully processed plus one; and every request but the first
\* comes right after the put of the previous response's batch, or right after
\* the previous response when that asked for no batch.
C22_OneRequestOutstanding ==
    /\ Len(Requests) - Len(Received) \in {0, 1}
    /\ Len(Requests) <= FullyProcessed + 1
    /\ \A i \in 2..Len(trace) :
         IsReq(i) =>
           IF IsResp(i - 1)
           THEN ~NeedsBatch(trace[i - 1].r) /\ WellFormed(trace[i - 1].r)
           ELSE /\ IsPut(i - 1)
                /\ i >= 3
                /\ IsResp(i - 2)
                /\ trace[i - 1].msg = Batch(trace[i - 2].r.items)

\* Four requests: a suppressed page, two batches put, the fourth request
\* waiting for its answer.
C22_Witness ==
    /\ pipeline = "flow"
    /\ fpc = "await"
    /\ Len(Requests) = 4
    /\ Len(Received) = 3
    /\ Len(Puts) = 2
    /\ Received[1].r.items = <<Other>>
    /\ IsReq(3) /\ IsPut(5) /\ IsReq(6) /\ IsPut(8) /\ IsReq(9)

\* The page the flow worker does not put: exactly one item, named "other".
Suppressed(r) ==
    WellFormed(r) /\ Len(r.items) = 1 /\ IsOther(r.items[1])

BatchesPut == SelectSeq(Puts, LAMBDA e : e.msg.kind = "batch")

\* C23: in the flow pipeline first_page is False exactly when a batch has
\* been put; the put of a batch makes it False and it never becomes True
\* again; receiving a suppressed page puts nothing and leaves first_page as it
\* was, True or False.
C23_PhaseInvariant ==
    /\ [](pipeline = "flow" => (~first_page <=> Len(BatchesPut) >= 1))
    /\ [][pipeline = "flow" =>
            /\ Len(BatchesPut') > Len(BatchesPut) => ~first_page'
            /\ ~first_page => ~first_page'
            /\ ( /\ Len(Received') > Len(Received)
                 /\ Suppressed(Received'[Len(Received')].r) )
               => /\ first_page' = first_page
                  /\ fpc' \in {"loop", "putEnd"}
                  /\ Len(Puts') = Len(Puts)]_vars

\* A suppressed page while first_page is True, a batch, then a suppressed
\* page while first_page is False, and the worker back at the top of its loop.
C23_Witness ==
    /\ pipeline = "flow"
    /\ Len(Received) = 3
    /\ Received[1].r = Page(<<Other>>, TRUE, TRUE, TRUE, TRUE, "T1")
    /\ Received[2].r = Page(<<ItemA>>, TRUE, TRUE, TRUE, TRUE, "T1")
    /\ Received[3].r = Page(<<Other>>, TRUE, TRUE, TRUE, TRUE, "T1")
    /\ Len(BatchesPut) = 1
    /\ ~first_page
    /\ fpc = "loop"
    /\ IsResp(Len(trace))

\* The messages main has taken that are batches, and all their items.
GotBatches == SelectSeq(got, LAMBDA m : m.kind = "batch")
GotItems == Flatten([i \in 1..Len(GotBatches) |-> GotBatches[i].items])

\* The items main's loop has gone through: all it has taken but those still
\* ahead of it in data_chunk.
Handled == SubSeq(GotItems, 1, Len(GotItems) - Len(data_chunk))

\* main's state as a function of the messages it has taken and of how far it
\* is in the last batch: nothing else enters.
WriterStateFromStream ==
    LET ended == Len(got) >= 1 /\ got[Len(got)] = None
        last == IF Len(GotBatches) = 0 THEN <<>>
                ELSE GotBatches[Len(GotBatches)].items
    IN  /\ Len(data_chunk) <= Len(last)
        /\ data_chunk = SubSeq(last, Len(last) - Len(data_chunk) + 1, Len(last))
        /\ written = Writable(Handled)
        /\ FirstElement = (Len(written) = 0)
        /\ file = IF wpc = "open" THEN ""
                  ELSE IF ended THEN Frame(written) ELSE Unclosed(written)
        /\ wpc = IF ended THEN (IF wpc = "done" THEN "done" ELSE "join")
                 ELSE IF Len(data_chunk) > 0 THEN "write"
                 ELSE IF file = "" THEN "open" ELSE "get"
        /\ \A i \in 1..(Len(got) - 1) : got[i] # None

\* The worker has ended after a last page without more=true.
EndedClean ==
    /\ fpc \in {"done", "crashed"}
    /\ Len(Received) >= 1
    /\ WellFormed(Received[Len(Received)].r)
    /\ NoMorePages(Received[Len(Received)].r)

\* The worker has ended on a response that is not a 200 page with data.
EndedByFailure ==
    /\ fpc \in {"done", "crashed"}
    /\ Len(Received) >= 1
    /\ ~WellFormed(Received[Len(Received)].r)

\* C24: two runs that put the same batches, one ended by a last page and one
\* by a failed fetch, show main the same thing. Whichever way the worker
\* ended, what it has put is its batches followed by the one None, and main's
\* state (position, flag, chunk, file) at every moment is a function of the
\* messages it has taken; so the two runs give main the same states, the same
\* file and the same ending.
C24_WriterCannotTell ==
    /\ (EndedClean \/ EndedByFailure) =>
          [i \in 1..Len(Puts) |-> Puts[i].msg] = [i \in 1..Len(BatchesPut) |-> BatchesPut[i].msg] \o <<None>>
    /\ WriterStateFromStream

\* The same for the failures after which the worker goes on to put None.
C24_ExceptScalarBody ==
    /\ (EndedClean \/ (EndedByFailure /\ fpc = "done")) =>
          [i \in 1..Len(Puts) |-> Puts[i].msg] = [i \in 1..Len(BatchesPut) |-> BatchesPut[i].msg] \o <<None>>
    /\ WriterStateFromStream

\* The request the step has just issued.
NewRequest == Requests'[Len(Requests')]

\* C25: in the flow pipeline every request carries the edgeId and the interval
\* of the first one; a request issued while first_page is True is the first
\* request again, field for field; and the request that follows a first page
\* holding only an item named other with more=true is that same request,
\* without the nextPageLink the page brought.
C25_FirstPhaseRequests ==
    /\ [](pipeline = "flow" =>
            /\ \A i \in 1..Len(Requests) :
                 /\ Requests[i].body.edgeId = Requests[1].body.edgeId
                 /\ Requests[i].body.interval = Requests[1].body.interval
            /\ ( /\ Len(Requests) >= 2
                 /\ Suppressed(Received[1].r)
                 /\ MoreIsTrue(Received[1].r) )
               => /\ Requests[2].body = Requests[1].body
                  /\ "nextPageLink" \notin DOMAIN Requests[2].body)
    /\ [][(pipeline = "flow" /\ Len(Requests') > Len(Requests) /\ first_page)
            => NewRequest.body = Requests'[1].body]_vars

C25_Witness ==
    /\ pipeline = "flow"
    /\ Len(Requests) = 4
    /\ Len(Received) >= 3
    /\ Received[1].r = Page(<<Other>>, TRUE, TRUE, TRUE, TRUE, "T1")
    /\ Received[2].r = Page(<<ItemA>>, TRUE, TRUE, TRUE, TRUE, "T1")
    /\ Received[3].r = Page(<<ItemB>>, TRUE, TRUE, TRUE, TRUE, "T2")
    /\ Requests[2].body = Requests[1].body
    /\ Requests[3].body.nextPageLink = "T1"
    /\ Requests[4].body.nextPageLink = "T2"

\* The items of the first n messages main has taken.
ItemsGot(n) == Flatten([i \in 1..n |-> got[i].items])

\* main is in its write loop, at or after a batch without a writable item.
AtUnwritableBatch ==
    /\ wpc \in {"get", "write"}
    /\ Len(got) >= 1
    /\ got[Len(got)].kind = "batch"
    /\ Writable(got[Len(got)].items) = <<>>

\* C26: in the flow pipeline, while and after main handles a batch that is
\* empty or holds only items named other, the file and FirstElement are what
\* the batches before it made them: nothing is written, no separator; and
\* FirstElement is False exactly when an element has been written.
C26_UnwritableBatch ==
    pipeline = "flow" =>
        /\ AtUnwritableBatch =>
             /\ file = Unclosed(Writable(ItemsGot(Len(got) - 1)))
             /\ FirstElement = (Writable(ItemsGot(Len(got) - 1)) = <<>>)
        /\ wpc # "open" => (~FirstElement <=> Len(written) >= 1)

C26_Witness ==
    /\ pipeline = "flow"
    /\ wpc = "get"
    /\ got = << Batch(<<>>), Batch(<<ItemA>>), Batch(<<Other, Other>>) >>
    /\ AtUnwritableBatch
    /\ file = Unclosed(<<ItemA>>)
    /\ ~FirstElement

\* The text with `n` spaces put at the start of each of its lines, the lines
\* being what the newlines of the text separate.
PrefixEveryLine(cs, n) ==
    CharSpaces(n)
    \o join(<<>>, [i \in 1..Len(cs) |->
                     IF cs[i] = "\n" THEN <<"\n">> \o CharSpaces(n) ELSE <<cs[i]>>])

Newlines(cs) == Cardinality({i \in 1..Len(cs) : cs[i] = "\n"})

\* What the call has added to the file.
Appended == SubSeq(call.output_file, Len(call.before) + 1, Len(call.output_file))

\* C27: a returned call of write_json_with_indent has left what the file held
\* and added to it exactly json.dumps(item, indent=indent) with `indent`
\* spaces before each line: as many newlines as the encoding has, none at the
\* start or the end, and no separator before or after.
C27_IndentedEncodingOnly ==
    (call.fn = "write_json_with_indent" /\ call.pc = "returned") =>
        /\ SubSeq(call.output_file, 1, Len(call.before)) = call.before
        /\ Appended = PrefixEveryLine(dumps(call.item, call.indent, 0), call.indent)
        /\ Newlines(Appended) = Newlines(dumps(call.item, call.indent, 0))
        /\ Appended[1] \notin {"\n", ","}
        /\ Appended[Len(Appended)] = "}"

\* {"a": 1, "b": [2, 3]} with indent 2, after "[\n".
C27_Witness ==
    /\ call.fn = "write_json_with_indent"
    /\ call.pc = "returned"
    /\ call.indent = 2
    /\ call.output_file =
         <<"[", "\n",
           " ", " ", "{", "\n",
           " ", " ", " ", " ", "\"", "a", "\"", ":", " ", "1", ",", "\n",
           " ", " ", " ", " ", "\"", "b", "\"", ":", " ", "[", "\n",
           " ", " ", " ", " ", " ", " ", "2", ",", "\n",
           " ", " ", " ", " ", " ", " ", "3", "\n",
           " ", " ", " ", " ", "]", "\n",
           " ", " ", "}">>

====
